---------------------------- MODULE Spec2Model ----------------------------
(***************************************************************************)
(* Comparison.py: a script that draws one figure with two bar-chart panels *)
(* (plot_accuracy_comparison) and two confusion-matrix heatmaps            *)
(* (compare_confusion_matrices -> plot_confusion_matrix) from module-level *)
(* literals, through matplotlib's pyplot interface.                        *)
(*                                                                         *)
(* The program counter pc is the source line about to be executed ("L16"   *)
(* is line 16 of Comparison.py).  One action models one statement.  The    *)
(* pyplot state the statements act on is modelled explicitly: the figure   *)
(* registry (figs), the current figure (gcf), and the fig/ax handles bound *)
(* by plt.subplots (fig).  Percentages are fixed-point numbers in          *)
(* hundredths (65.69 is 6569).                                             *)
(*                                                                         *)
(* Spec      the script run directly (lines 53-55), data as in the file.   *)
(* SpecCalls the functions called by an importing caller, in any order,    *)
(*           with the module-level datasets drawn from small sets.         *)
(***************************************************************************)
EXTENDS Integers, Sequences, FiniteSets, TLC

VARIABLES
    centralized_acc,         \* line 5
    centralized_unseen_acc,  \* line 6
    federated_acc,           \* line 8
    federated_labels,        \* line 9
    cm_centralized,          \* line 46
    cm_federated,            \* line 47
    pc,                      \* the line about to be executed
    stack,                   \* return addresses of the active calls
    cm, title,               \* parameters of plot_confusion_matrix
    fig,                     \* fig, ax handles of the running function (index in figs)
    figs,                    \* every figure created so far, in creation order
    gcf,                     \* pyplot's current figure (0: none)
    backend,                 \* "interactive" (show blocks) or "agg" (show returns at once)
    blocked,                 \* inside a blocking plt.show()
    fault,                   \* "none", or the exception that ended the run
    calls,                   \* history: the function invocations, in order
    shows                    \* history: the plt.show() events, in order

data == <<centralized_acc, centralized_unseen_acc, federated_acc,
          federated_labels, cm_centralized, cm_federated>>
locals == <<cm, title, fig>>
pyplot == <<figs, gcf, blocked, shows>>
vars == <<data, pc, stack, locals, pyplot, backend, fault, calls>>

----------------------------------------------------------------------------
(* The literals of the file *)

\* a percentage written whole.frac with two decimals, in hundredths
Pct(whole, frac) == whole * 100 + frac

centralized_acc_lit == <<Pct(65, 69), Pct(68, 72), Pct(68, 36)>>
centralized_unseen_acc_lit == <<Pct(0, 0), Pct(0, 0), Pct(0, 0)>>
federated_acc_lit == <<Pct(95, 94), Pct(97, 35), Pct(94, 48), Pct(94, 64)>>
\* faulty variant: a label missing from line 9
federated_labels_short == <<"All Digits", "[1,3,7]", "[2,5,8]">>
federated_labels_lit == <<"All Digits", "[1,3,7]", "[2,5,8]", "[4,6,9]">>
\* faulty variant: an entry missing from a row of line 46
cm_centralized_ragged == <<<<50, 2, 1>>, <<1, 45>>, <<0, 3, 52>>>>
cm_centralized_lit == <<<<50, 2, 1>>, <<1, 45, 5>>, <<0, 3, 52>>>>
cm_federated_lit == <<<<58, 1, 0>>, <<1, 57, 2>>, <<0, 1, 59>>>>
\* the x labels written out at lines 16 and 17
model_labels == <<"Model 1", "Model 2", "Model 3">>

----------------------------------------------------------------------------
(* matplotlib objects *)

NewAxes == [bars |-> <<>>, image |-> <<>>, cmap |-> "", ylim |-> <<>>,
            title |-> "", xlabel |-> "", ylabel |-> "", legend |-> ""]

NewFigure(ncols, w, h) ==
    [axes |-> [i \in 1..ncols |-> NewAxes], figsize |-> <<w, h>>,
     suptitle |-> "", tight |-> FALSE, colorbar |-> FALSE, open |-> TRUE]

\* what a figure looks like: everything but its place in the registry
Desc(f) == [axes |-> f.axes, figsize |-> f.figsize, suptitle |-> f.suptitle,
            tight |-> f.tight, colorbar |-> f.colorbar]

RECURSIVE OpenDescs(_, _)
OpenDescs(fs, i) ==
    IF i > Len(fs) THEN <<>>
    ELSE (IF fs[i].open THEN <<Desc(fs[i])>> ELSE <<>>) \o OpenDescs(fs, i + 1)

\* numpy broadcasting of two 1-d shapes, as Axes.bar applies it to x and height
Broadcastable(x, height) ==
    \/ Len(x) = Len(height)
    \/ Len(x) = 1
    \/ Len(height) = 1

\* imshow draws 2-d data only: np.array of an empty list is 1-d, of ragged rows is not 2-d
Is2D(m) == /\ Len(m) > 0
           /\ \A i \in 1..Len(m) : Len(m[i]) = Len(m[1])

\* a labelled bar container without bars: the legend entry has nothing to copy from
HasEmptyContainer(a) == \E i \in 1..Len(a.bars) : Len(a.bars[i].x) = 0

----------------------------------------------------------------------------
(* Control *)

\* faulty variant: exceptions caught and ignored
AtSwallowing(l) == pc = l /\ ~blocked
\* A statement runs when control is at its line; nothing in the file catches
\* an exception, so after one no statement runs.
At(l) == pc = l /\ fault = "none" /\ ~blocked

Goto(l) == pc' = l /\ UNCHANGED stack
Return == pc' = Head(stack) /\ stack' = Tail(stack)
Raise(e) == fault' = e /\ UNCHANGED <<pc, stack>>
Invocation(fn, m, t) == [fn |-> fn, cm |-> m, title |-> t]
Call(fn, m, t, entry, ret) ==
    /\ pc' = entry
    /\ stack' = <<ret>> \o stack
    /\ calls' = Append(calls, Invocation(fn, m, t))

----------------------------------------------------------------------------
(* Library calls, as the statements use them *)

\* fig, ax = plt.subplots(...): a new figure, which becomes the current one
Subplots(ncols, w, h, next) ==
    /\ figs' = Append(figs, NewFigure(ncols, w, h))
    /\ fig' = Len(figs) + 1
    /\ gcf' = Len(figs) + 1
    /\ Goto(next)
    /\ UNCHANGED <<data, cm, title, blocked, shows, backend, fault, calls>>

\* a statement that changes axes i of the figure bound to the local handle
AxSet(i, a, next) ==
    /\ figs' = [figs EXCEPT ![fig].axes[i] = a]
    /\ Goto(next)
    /\ UNCHANGED <<data, locals, gcf, blocked, shows, backend, fault, calls>>

\* a statement that raises
Throw(e) ==
    /\ Raise(e)
    /\ UNCHANGED <<data, locals, pyplot, backend, calls>>

\* ax[i].bar(x, height, color=, label=)
Bar(i, x, height, color, label, next) ==
    IF Broadcastable(x, height)
    THEN AxSet(i, [figs[fig].axes[i] EXCEPT
                     !.bars = Append(@, [x |-> x, height |-> height,
                                         color |-> color, label |-> label])],
               next)
    ELSE Throw("ValueError")

\* ax[i].legend(loc=): with an empty container, releases differ (IndexError or an entry)
Legend(i, loc, next) ==
    \/ AxSet(i, [figs[fig].axes[i] EXCEPT !.legend = loc], next)
    \/ /\ HasEmptyContainer(figs[fig].axes[i])
       /\ Throw("IndexError")

\* a pyplot call that changes the current figure
PltSet(f, next) ==
    /\ figs' = [figs EXCEPT ![gcf] = f]
    /\ Goto(next)
    /\ UNCHANGED <<data, locals, gcf, blocked, shows, backend, fault, calls>>

ShowEvent(site, displayed, returned) ==
    [site |-> site, call |-> calls[Len(calls)], built |-> Desc(figs[fig]),
     displayed |-> displayed, returned |-> returned]

\* plt.show() as the last statement of a function: an interactive backend
\* displays every open figure and blocks; a non-interactive one displays
\* nothing and returns, and the function returns with it
Show(site) ==
    /\ IF backend = "interactive"
       THEN /\ shows' = Append(shows, ShowEvent(site, OpenDescs(figs, 1), FALSE))
            /\ blocked' = TRUE
            /\ UNCHANGED <<pc, stack>>
       ELSE /\ shows' = Append(shows, ShowEvent(site, <<>>, TRUE))
            /\ UNCHANGED blocked
            /\ Return
    /\ UNCHANGED <<data, locals, figs, gcf, backend, fault, calls>>

\* the user closes the windows: the figures are destroyed, show returns
CloseWindows ==
    /\ blocked /\ fault = "none"
    /\ blocked' = FALSE
    /\ figs' = [i \in 1..Len(figs) |-> [figs[i] EXCEPT !.open = FALSE]]
    /\ gcf' = 0
    /\ shows' = [shows EXCEPT ![Len(shows)].returned = TRUE]
    /\ Return
    /\ UNCHANGED <<data, locals, backend, fault, calls>>

----------------------------------------------------------------------------
(* plot_accuracy_comparison, lines 12-32 *)

\* faulty variant: drawing on the current figure when there is one
L13_reuse ==
    /\ At("L13")
    /\ IF gcf = 0 \/ Len(figs[gcf].axes) # 2 THEN Subplots(2, 12, 6, "L16")
       ELSE /\ fig' = gcf
            /\ Goto("L16")
            /\ UNCHANGED <<data, cm, title, pyplot, backend, fault, calls>>
L13 == At("L13") /\ Subplots(2, 12, 6, "L16")
L16 == At("L16") /\ Bar(1, model_labels, centralized_acc, "blue", "Entire Dataset", "L17")
L17 == At("L17") /\ Bar(1, model_labels, centralized_unseen_acc, "red", "Unseen Digits", "L18")
\* faulty variant: the range given as a fraction, set_ylim(0, 1)
L18_unit == At("L18") /\ AxSet(1, [figs[fig].axes[1] EXCEPT !.ylim = <<Pct(0, 0), Pct(1, 0)>>], "L19")
L18 == At("L18") /\ AxSet(1, [figs[fig].axes[1] EXCEPT !.ylim = <<Pct(0, 0), Pct(100, 0)>>], "L19")
L19 == At("L19") /\ AxSet(1, [figs[fig].axes[1] EXCEPT !.title = "Centralized Learning"], "L20")
L20 == At("L20") /\ AxSet(1, [figs[fig].axes[1] EXCEPT !.ylabel = "Accuracy (%)"], "L21")
L21 == At("L21") /\ Legend(1, "upper left", "L24")
L24 == At("L24") /\ Bar(2, federated_labels, federated_acc, "green", "Federated Results", "L25")
L25 == At("L25") /\ AxSet(2, [figs[fig].axes[2] EXCEPT !.ylim = <<Pct(0, 0), Pct(100, 0)>>], "L26")
L26 == At("L26") /\ AxSet(2, [figs[fig].axes[2] EXCEPT !.title = "Federated Learning"], "L27")
L27 == At("L27") /\ AxSet(2, [figs[fig].axes[2] EXCEPT !.ylabel = "Accuracy (%)"], "L28")
L28 == At("L28") /\ Legend(2, "upper left", "L30")
L30 == At("L30") /\ PltSet([figs[gcf] EXCEPT
           !.suptitle = "Centralized vs Federated Learning Accuracy Comparison"], "L31")
L31 == At("L31") /\ PltSet([figs[gcf] EXCEPT !.tight = TRUE], "L32")
L32 == At("L32") /\ Show("L32")

plot_accuracy_comparison ==
    \/ L13 \/ L16 \/ L17 \/ L18 \/ L19 \/ L20 \/ L21 \/ L24
    \/ L25 \/ L26 \/ L27 \/ L28 \/ L30 \/ L31 \/ L32

----------------------------------------------------------------------------
(* plot_confusion_matrix(cm, title), lines 35-42 *)

\* f'{title} Confusion Matrix'
\* faulty variant: the suffix left out
HeatmapTitleBare(t) == t
HeatmapTitle(t) == t \o " Confusion Matrix"

\* plt.xlabel / plt.ylabel act on the current axes of the current figure,
\* which is the axes added last (colorbar restores it)
Gca == Len(figs[gcf].axes)

L36 == At("L36") /\ Subplots(1, 8, 8, "L37")
\* faulty variant: the array passed in is edited in place (it aliases cm_centralized)
L37_fill_diagonal ==
    /\ At("L37")
    /\ Is2D(cm)
    /\ figs' = [figs EXCEPT ![fig].axes[1] = [@ EXCEPT !.image = cm, !.cmap = "Blues"]]
    /\ cm_centralized' = [i \in 1..Len(cm_centralized) |->
                            [j \in 1..Len(cm_centralized[i]) |->
                               IF i = j THEN 0 ELSE cm_centralized[i][j]]]
    /\ Goto("L38")
    /\ UNCHANGED <<centralized_acc, centralized_unseen_acc, federated_acc,
                   federated_labels, cm_federated, locals, gcf, blocked, shows,
                   backend, fault, calls>>
L37 ==
    /\ At("L37")
    /\ IF Is2D(cm)
       THEN AxSet(1, [figs[fig].axes[1] EXCEPT !.image = cm, !.cmap = "Blues"], "L38")
       ELSE Throw("TypeError")
L38 == At("L38") /\ PltSet([figs[gcf] EXCEPT !.colorbar = TRUE], "L39")
L39 == At("L39") /\ AxSet(1, [figs[fig].axes[1] EXCEPT !.title = HeatmapTitle(title)], "L40")
L40 == At("L40") /\ PltSet([figs[gcf] EXCEPT !.axes[Gca].xlabel = "Predicted"], "L41")
L41 == At("L41") /\ PltSet([figs[gcf] EXCEPT !.axes[Gca].ylabel = "True"], "L42")
L42 == At("L42") /\ Show("L42")

plot_confusion_matrix == L36 \/ L37 \/ L38 \/ L39 \/ L40 \/ L41 \/ L42

----------------------------------------------------------------------------
(* compare_confusion_matrices, lines 49-51 *)

CallHeatmap(m, t, ret) ==
    /\ Call("plot_confusion_matrix", m, t, "L36", ret)
    /\ cm' = m
    /\ title' = t
    /\ UNCHANGED <<data, fig, pyplot, backend, fault>>

CallPlain(fn, entry, ret) ==
    /\ Call(fn, <<>>, "", entry, ret)
    /\ UNCHANGED <<data, locals, pyplot, backend, fault>>

L50 == At("L50") /\ CallHeatmap(cm_centralized, "Centralized Model", "L51")
\* faulty variant: the second call left out
L51_skipped == At("L51") /\ Goto("L52")
                /\ UNCHANGED <<data, locals, pyplot, backend, fault, calls>>
L51 == At("L51") /\ CallHeatmap(cm_federated, "Federated Model", "L52")
\* the end of the body: the function returns
L52 == At("L52") /\ Return
                 /\ UNCHANGED <<data, locals, pyplot, backend, fault, calls>>

compare_confusion_matrices == L50 \/ L51 \/ L52

----------------------------------------------------------------------------
(* The plotting library failing for a reason of its own (no display, a     *)
(* backend that cannot start): any library call may raise.                 *)

LibraryLines == {"L13", "L16", "L17", "L18", "L19", "L20", "L21", "L24", "L25",
                 "L26", "L27", "L28", "L30", "L31", "L32",
                 "L36", "L37", "L38", "L39", "L40", "L41", "L42"}

LibraryFault ==
    /\ pc \in LibraryLines
    /\ At(pc)
    /\ Throw("BackendError")

Functions ==
    \/ plot_accuracy_comparison
    \/ plot_confusion_matrix
    \/ compare_confusion_matrices
    \/ CloseWindows
    \/ LibraryFault

----------------------------------------------------------------------------
(* The script run directly, lines 53-55 *)

\* faulty variant: the wrong function called first
L54_swapped == At("L54") /\ CallPlain("compare_confusion_matrices", "L50", "L55")
L54 == At("L54") /\ CallPlain("plot_accuracy_comparison", "L13", "L55")
L55 == At("L55") /\ CallPlain("compare_confusion_matrices", "L50", "exit")

Backends == {"interactive", "agg"}

InitRun ==
    /\ stack = <<>>
    /\ cm = <<>> /\ title = "" /\ fig = 0
    /\ figs = <<>> /\ gcf = 0 /\ blocked = FALSE /\ shows = <<>>
    /\ backend \in Backends
    /\ fault = "none"
    /\ calls = <<>>

Init ==
    /\ centralized_acc = centralized_acc_lit
    /\ centralized_unseen_acc = centralized_unseen_acc_lit
    /\ federated_acc = federated_acc_lit
    /\ federated_labels = federated_labels_lit
    /\ cm_centralized = cm_centralized_lit
    /\ cm_federated = cm_federated_lit
    /\ InitRun
    /\ pc = "L54"

Next == L54 \/ L55 \/ Functions

Spec == Init /\ [][Next]_vars

----------------------------------------------------------------------------
(* The functions called by a program that imports the module *)

MaxCalls == 3

\* datasets a caller may have put in place of the literals
Accuracies == {centralized_acc_lit, <<Pct(50, 0)>>, <<>>}
Federated == {<<federated_labels_lit, federated_acc_lit>>, <<<<>>, <<>>>>}
Matrices == {cm_centralized_lit, <<>>}
Titles == {"Centralized Model", "Federated Model"}

InitCalls ==
    /\ centralized_acc \in Accuracies
    /\ centralized_unseen_acc \in {centralized_unseen_acc_lit, <<>>}
    /\ \E f \in Federated : federated_labels = f[1] /\ federated_acc = f[2]
    /\ cm_centralized \in Matrices
    /\ cm_federated = cm_federated_lit
    /\ InitRun
    /\ pc = "caller"

Caller ==
    /\ At("caller")
    /\ Len(calls) < MaxCalls
    /\ \/ CallPlain("plot_accuracy_comparison", "L13", "caller")
       \/ \E m \in {cm_centralized, cm_federated} : \E t \in Titles :
             CallHeatmap(m, t, "caller")
       \/ CallPlain("compare_confusion_matrices", "L50", "caller")

NextCalls == Caller \/ Functions

SpecCalls == InitCalls /\ [][NextCalls]_vars

----------------------------------------------------------------------------
(* Properties *)

PAC == "plot_accuracy_comparison"
PCM == "plot_confusion_matrix"
CCM == "compare_confusion_matrices"

Count(fn) == Cardinality({i \in 1..Len(calls) : calls[i].fn = fn})
IsHeatmapCall(c) == c.fn = PCM
HeatmapCalls == SelectSeq(calls, IsHeatmapCall)
\* the figures plot_confusion_matrix created (one axes) and the bar-chart figures (two)
HeatmapFigures == {i \in 1..Len(figs) : Len(figs[i].axes) = 1}
BarFigures == {i \in 1..Len(figs) : Len(figs[i].axes) = 2}
ShowReturned(site) == \E k \in 1..Len(shows) : shows[k].site = site /\ shows[k].returned
\* exceptions that come from what was passed to the library, not from its environment
InputFaults == {"ValueError", "TypeError", "IndexError"}
AccuracyLines == {"L13", "L16", "L17", "L18", "L19", "L20", "L21", "L24", "L25",
                  "L26", "L27", "L28", "L30", "L31", "L32"}
HeatmapLines == {"L36", "L37", "L38", "L39", "L40", "L41", "L42"}

RECURSIVE Sum(_)
Sum(row) == IF row = <<>> THEN 0 ELSE Head(row) + Sum(Tail(row))

\* C1: run as a script, plot_accuracy_comparison is invoked first and
\* compare_confusion_matrices second, neither more than once and, in a run
\* that reaches its end, each exactly once; no heatmap figure exists before
\* the show of the accuracy figure has returned.
MainOrder ==
    /\ Count(PAC) <= 1
    /\ Count(CCM) <= 1
    /\ (Count(CCM) = 1 => calls[1].fn = PAC)
    /\ (calls # <<>> => calls[1].fn = PAC)
    /\ (HeatmapFigures # {} => ShowReturned("L32"))
    /\ (\A k \in 1..Len(shows) : shows[k].site = "L42" => k > 1 /\ shows[1].site = "L32")
    /\ (pc = "exit" => Count(PAC) = 1 /\ Count(CCM) = 1)
MainOrderWitness ==
    /\ pc = "exit"
    /\ calls[1].fn = PAC
    /\ calls[2].fn = CCM

\* C2: with the literals of the file no statement raises because of its
\* arguments, and a run that reaches its end has made three figures (one of
\* two bar-chart panels, then two heatmaps) and three show calls, has no
\* fault, and can take no further step.
FullRun ==
    /\ fault \notin InputFaults
    /\ pc = "exit" =>
         /\ fault = "none"
         /\ Len(figs) = 3
         /\ BarFigures = {1}
         /\ \A i \in 1..2 : Len(figs[1].axes[i].bars) > 0
         /\ HeatmapFigures = {2, 3}
         /\ \A i \in {2, 3} : figs[i].axes[1].image # <<>>
         /\ Len(shows) = 3
         /\ \A k \in 1..3 : shows[k].returned
         /\ ~ENABLED Next
FullRunWitness == pc = "exit" /\ Len(shows) = 3 /\ fault = "none"

\* C3: every bar series has as many labels as values: the three labels of
\* lines 16-17 against centralized_acc and centralized_unseen_acc, and
\* federated_labels against federated_acc; in every state, and in every
\* series drawn.
LabelsMatchValues ==
    /\ Len(model_labels) = Len(centralized_acc)
    /\ Len(model_labels) = Len(centralized_unseen_acc)
    /\ Len(federated_labels) = Len(federated_acc)
    /\ \A f \in 1..Len(figs) : \A a \in 1..Len(figs[f].axes) :
         \A b \in 1..Len(figs[f].axes[a].bars) :
            Len(figs[f].axes[a].bars[b].x) = Len(figs[f].axes[a].bars[b].height)
LabelsMatchValuesWitness ==
    /\ Len(figs) >= 1
    /\ Len(figs[1].axes[1].bars) = 2
    /\ Len(figs[1].axes[2].bars) = 1

\* C4: every matrix passed to plot_confusion_matrix has 3 rows of 3
\* entries, every entry a natural number, and so every row sum is one.
SquareMatrices ==
    \A c \in 1..Len(HeatmapCalls) :
       LET m == HeatmapCalls[c].cm IN
       /\ Len(m) = 3
       /\ \A i \in 1..Len(m) :
            /\ Len(m[i]) = 3
            /\ \A j \in 1..Len(m[i]) : m[i][j] \in Nat
            /\ Sum(m[i]) \in Nat
SquareMatricesWitness ==
    /\ Len(HeatmapCalls) = 2
    /\ HeatmapCalls[1].cm # HeatmapCalls[2].cm

\* C5: two show events of the same function called with the same arguments
\* present the same figure, whatever was called in between: the figure built
\* is the same and what is put on display is the same.
Idempotent ==
    \A i, j \in 1..Len(shows) :
       shows[i].call = shows[j].call =>
          /\ shows[i].built = shows[j].built
          /\ shows[i].displayed = shows[j].displayed
IdempotentWitness ==
    \E i, j \in 1..Len(shows) :
       /\ i < j
       /\ shows[i].call = shows[j].call
       /\ shows[i].call.fn = PAC
       /\ shows[j].returned

\* C6: a render operation given an empty dataset does not end in an
\* exception out of the plotting library.
EmptyGiven ==
    \/ /\ pc \in AccuracyLines
       /\ <<>> \in {centralized_acc, centralized_unseen_acc, federated_acc, federated_labels}
    \/ /\ pc \in HeatmapLines
       /\ cm = <<>>
EmptyDatasetHandled == EmptyGiven => fault \notin InputFaults

\* C7: compare_confusion_matrices calls plot_confusion_matrix twice, with
\* (cm_centralized, "Centralized Model") and then (cm_federated, "Federated
\* Model"); the second heatmap figure is created only after the show of the
\* first has returned; each heatmap is titled "<title> Confusion Matrix".
CompareOrder ==
    /\ Len(HeatmapCalls) <= 2
    /\ Len(HeatmapCalls) >= 1 =>
          HeatmapCalls[1] = Invocation(PCM, cm_centralized, "Centralized Model")
    /\ Len(HeatmapCalls) >= 2 =>
          HeatmapCalls[2] = Invocation(PCM, cm_federated, "Federated Model")
    /\ pc \in {"L52", "exit"} => Len(HeatmapCalls) = 2
    /\ Cardinality(HeatmapFigures) >= 2 =>
          \E k \in 1..Len(shows) : /\ shows[k].call = HeatmapCalls[1]
                                   /\ shows[k].returned
    /\ \A k \in 1..Len(shows) :
          /\ (Len(HeatmapCalls) >= 1 /\ shows[k].call = HeatmapCalls[1]) =>
                shows[k].built.axes[1].title = "Centralized Model Confusion Matrix"
          /\ (Len(HeatmapCalls) >= 2 /\ shows[k].call = HeatmapCalls[2]) =>
                shows[k].built.axes[1].title = "Federated Model Confusion Matrix"
CompareOrderWitness ==
    /\ pc = "exit"
    /\ Len(HeatmapCalls) = 2
    /\ \E k \in 1..Len(shows) : shows[k].call = HeatmapCalls[2]

\* C8: no step of a render operation changes centralized_acc,
\* centralized_unseen_acc, federated_acc, federated_labels, cm_centralized
\* or cm_federated.
DataUnchanged == [][data' = data]_vars
DataUnchangedWitness ==
    /\ pc = "caller"
    /\ Count(PAC) >= 1
    /\ Count(PCM) >= 1
    /\ Len(shows) >= 2

\* C9: after a fault no statement runs (so none is retried); a fault in
\* plot_accuracy_comparison leaves compare_confusion_matrices uninvoked,
\* and a fault in the first heatmap leaves the second undrawn.
FaultEndsRun ==
    /\ [][fault = "none"]_vars
    /\ []((fault # "none" /\ pc \in AccuracyLines) => Count(CCM) = 0)
    /\ []((fault # "none" /\ pc \in HeatmapLines /\ Len(HeatmapCalls) = 1)
             => Cardinality(HeatmapFigures) <= 1)
FaultEndsRunWitness ==
    /\ fault = "BackendError"
    /\ pc \in HeatmapLines
    /\ Len(HeatmapCalls) = 1

\* C10: both panels of the accuracy figure have the y range 0 to 100, and
\* every value of centralized_acc, centralized_unseen_acc and federated_acc
\* lies in it, as does every bar drawn.
InRange(v) == Pct(0, 0) <= v /\ v <= Pct(100, 0)
AxisRange ==
    /\ \A s \in {centralized_acc, centralized_unseen_acc, federated_acc} :
          \A i \in 1..Len(s) : InRange(s[i])
    /\ \A k \in 1..Len(shows) :
          shows[k].site = "L32" =>
             \A a \in 1..2 :
                /\ shows[k].built.axes[a].ylim = <<Pct(0, 0), Pct(100, 0)>>
                /\ \A b \in 1..Len(shows[k].built.axes[a].bars) :
                      \A i \in 1..Len(shows[k].built.axes[a].bars[b].height) :
                         InRange(shows[k].built.axes[a].bars[b].height[i])
AxisRangeWitness ==
    \E k \in 1..Len(shows) :
       /\ shows[k].site = "L32"
       /\ Len(shows[k].built.axes[1].bars) = 2
       /\ Len(shows[k].built.axes[2].bars) = 1

=============================================================================
